---- MODULE Spec2Model ----
(***************************************************************************)
(* Event / media lifecycle of the timeline application.                    *)
(*                                                                         *)
(* The metadata store (src/lib/db.ts) is three tables, events, photos and  *)
(* background_images; the blob store is a set of urls.  The route handlers *)
(* (POST/DELETE /events/{id}/photos, DELETE /events/{id}, POST /events)    *)
(* and the background-image job (src/lib/imagen.ts) are processes that     *)
(* interleave at their awaits: every action below is one await of a        *)
(* handler together with the synchronous code that follows it.  The        *)
(* client's upload loop (uploadFiles of the event modal) sends one         *)
(* POST /events/{id}/photos per file.                                      *)
(*                                                                         *)
(* Identifiers (UUIDs), blob urls and NOW() timestamps are drawn from      *)
(* counters: every new one is fresh.  0 is an id or url no row ever had.   *)
(***************************************************************************)
EXTENDS Integers, Sequences, FiniteSets, Bags, TLC

\* ---------------------------------------------------------------- bounds
MaxStarted == 4    \* requests and background-image jobs ever started
MaxPuts == 2       \* blobs ever put (photos and sketches together)
MaxFiles == 2      \* files of one upload batch
MaxEdited == 1     \* events created while events are edited

\* -------------------------------------------------------------- constants
\* SKETCH_PROMPTS.length, the iterations of the job's loop
SketchPromptsLength == 3

Null == "null"
Titles == {"", "Trip"}
Dates == {"", "2024-01-01"}
Locations == {Null, "", "Paris"}
Latitudes == {Null, "48.8566"}
Longitudes == {Null, "2.3522"}
SortOrders == {0}

\* request fields of the requests that edit events: a second title, and a
\* date in another notation than YYYY-MM-DD
EditTitles == {"", "Trip", "Party"}
EditDates == {"", "2024-01-01", "1/8/1999"}
EditLocations == {Null, "Paris"}

\* titles, dates and sort_order fields of the requests whose events and photos
\* are listed; one date is a date no calendar holds
ListTitles == {"Trip", "Party"}
ListDates == {"2024-01-01", "2023-06-15", "2024-13-45"}
ListSortOrders == {0, 1}

\* JavaScript truthiness of a request field: null, undefined and "" are falsy
Falsy(v) == v \in {Null, ""}

VARIABLES
    events,        \* table events: set of rows
    photos,        \* table photos: set of rows
    backgrounds,   \* table background_images: set of rows
    blobs,         \* urls the blob store currently holds
    nextEventId,   \* next fresh event id
    nextRowId,     \* next fresh photo / background id, also the NOW() clock
    nextUrl,       \* next fresh blob url
    started,       \* requests and jobs started so far
    putOk,         \* history: urls a successful put has returned
    deleted,       \* history: event ids DELETE /events/{id} reported success for
    jobs,          \* event id -> state of its generateAndSaveBackgrounds call
    inflight,      \* route handlers between two awaits
    batch,         \* the client's uploadFiles loop
    removed,       \* history: photo ids removePhoto has returned true for
    resp,          \* the response the latest step sent, if it sent one
    files,         \* the files handed to getFilesMetadata
    results,       \* per file, what its getPhotoMetadata call has resolved to
    meta,          \* what getFilesMetadata has returned
    tablesInitialized,  \* the module's `let tablesInitialized`
    relations,     \* the tables and added columns the database holds
    calls,         \* store operations inside or after their ensureTables call
    modal          \* the state of the page's event modal

vars == <<events, photos, backgrounds, blobs, nextEventId, nextRowId, nextUrl, started,
          putOk, deleted, jobs, inflight, batch, removed, resp, files, results, meta,
          tablesInitialized, relations, calls, modal>>

\* the state of the schema initialization
schema == <<tablesInitialized, relations, calls>>

\* the state of the metadata extraction, which no route handler touches
extraction == <<files, results, meta>>

tables == <<events, photos, backgrounds>>
counters == <<nextEventId, nextRowId, nextUrl>>

EventIds == 1..MaxStarted

\* ------------------------------------------------------------ metadata store

\* `date DATE NOT NULL` written from a string and read back as `date::text`:
\* the column takes ISO dates and the other notations of its input syntax,
\* returns every date in ISO form, and rejects what is no calendar date
DateColumn(d) ==
    CASE d = "2024-01-01" -> "2024-01-01"
      [] d = "2023-06-15" -> "2023-06-15"
      [] d = "2024-06-15" -> "2024-06-15"
      [] d = "1/8/1999" -> "1999-01-08"
      [] OTHER -> "error"

\* the order of the DATE column, as days since 1970-01-01
DateDays(d) ==
    CASE d = "1999-01-08" -> 10599
      [] d = "2023-06-15" -> 19523
      [] d = "2024-01-01" -> 19723
      [] d = "2024-06-15" -> 19889

EventExists(id) == \E e \in events : e.id = id

EventRow(id) == CHOOSE e \in events : e.id = id

\* mutant: ORDER BY created_at ASC alone
PhotoBeforeCreated(p, q) == p.created_at < q.created_at

\* ORDER BY sort_order ASC, created_at ASC
PhotoBefore(p, q) ==
    \/ p.sort_order < q.sort_order
    \/ p.sort_order = q.sort_order /\ p.created_at < q.created_at

RECURSIVE OrderPhotos(_)
OrderPhotos(S) ==
    IF S = {} THEN <<>>
    ELSE LET m == CHOOSE p \in S : \A q \in S \ {p} : PhotoBefore(p, q)
         IN <<m>> \o OrderPhotos(S \ {m})

\* ORDER BY created_at ASC
RECURSIVE OrderBackgrounds(_)
OrderBackgrounds(S) ==
    IF S = {} THEN <<>>
    ELSE LET m == CHOOSE b \in S : \A c \in S \ {b} : b.created_at < c.created_at
         IN <<m>> \o OrderBackgrounds(S \ {m})

\* SELECT ... FROM photos WHERE event_id = id ORDER BY ...
SelectPhotos(id) == OrderPhotos({p \in photos : p.event_id = id})

\* SELECT ... FROM background_images WHERE event_id = id ORDER BY ...
SelectBackgrounds(id) == OrderBackgrounds({b \in backgrounds : b.event_id = id})

\* mutant: the title is read from another column
rowToEventWrongColumn(row, ps, bgs) ==
    [id |-> row.id, title |-> row.date, date |-> row.date,
     location |-> IF Falsy(row.location) THEN Null ELSE row.location,
     latitude |-> row.latitude, longitude |-> row.longitude,
     updated_at |-> row.updated_at,
     photos |-> ps, backgrounds |-> bgs]

rowToEvent(row, ps, bgs) ==
    [id |-> row.id, title |-> row.title, date |-> row.date,
     location |-> IF Falsy(row.location) THEN Null ELSE row.location,
     latitude |-> row.latitude, longitude |-> row.longitude,
     updated_at |-> row.updated_at,
     photos |-> ps, backgrounds |-> bgs]

NotFound == [id |-> 0]

getEvent(id) ==
    IF ~EventExists(id) THEN NotFound
    ELSE rowToEvent(EventRow(id), SelectPhotos(id), SelectBackgrounds(id))

\* SELECT ... FROM events ORDER BY date ASC
RECURSIVE OrderEvents(_)
OrderEvents(S) ==
    IF S = {} THEN <<>>
    ELSE LET m == CHOOSE e \in S : \A f \in S : DateDays(e.date) <= DateDays(f.date)
         IN <<m>> \o OrderEvents(S \ {m})

\* photosByEvent[eid]: the rows of the ordered photosResult pushed for eid
photosByEvent(eid) ==
    LET ofEvent(p) == p.event_id = eid
    IN SelectSeq(OrderPhotos(photos), ofEvent)

\* bgsByEvent[eid]: the rows of the ordered bgResult pushed for eid
bgsByEvent(eid) ==
    LET ofEvent(b) == b.event_id = eid
    IN SelectSeq(OrderBackgrounds(backgrounds), ofEvent)

getAllEvents ==
    LET rows == OrderEvents(events)
    IN [k \in 1..Len(rows) |->
           rowToEvent(rows[k], photosByEvent(rows[k].id), bgsByEvent(rows[k].id))]

\* the ids getAllEvents returns
getAllEventIds == {e.id : e \in events}

\* mutant: the dependent tables declare no foreign key
ForeignKeyMissing(eventId) == TRUE

\* REFERENCES events(id): an insert of a dependent row needs its event row
ForeignKeyHolds(eventId) == EventExists(eventId)

\* mutant: photos.event_id without ON DELETE CASCADE
CascadePhotosMissing(id) == photos

\* ON DELETE CASCADE on photos.event_id
CascadePhotos(id) == {p \in photos : p.event_id # id}

\* ON DELETE CASCADE on background_images.event_id
CascadeBackgrounds(id) == {b \in backgrounds : b.event_id # id}

\* DELETE FROM photos WHERE id = photoId
removePhotoRows(photoId) == {p \in photos : p.id # photoId}

\* mutant: `rowCount ?? 0` compared with >= 0
removePhotoResultAlways(photoId) == TRUE

\* rowCount > 0 of that DELETE
removePhotoResult(photoId) == \E p \in photos : p.id = photoId

\* ------------------------------------------------------------ process state

\* route handlers that can be between two awaits at once
Concurrent == {1, 2}

\* a route handler between two awaits: the event id its request named, the url
\* its put returned, the sort_order of its form, how its blob deletes went, the
\* file of the upload loop it serves (0: a request of its own), the photoId of
\* its body, and its allUrls
Handler(op, id, url, sort, threw, file, photoId, urls) ==
    [op |-> op, id |-> id, url |-> url, sort |-> sort, threw |-> threw, file |-> file,
     photoId |-> photoId, urls |-> urls]

\* inflight is the bag of the handlers between two awaits
HasFreeSlot == BagCardinality(inflight) < Cardinality(Concurrent)

Suspend(h) == inflight (+) SetToBag({h})

Resume(h) == inflight (-) SetToBag({h})

Handlers(op) == {h \in BagToSet(inflight) : h.op = op}

\* how the blob deletes of one handler went: it made none, none of them
\* threw, some did, all did
Threw(nDel, nThrew) ==
    IF nDel = 0 THEN "no del"
    ELSE IF nThrew = 0 THEN "none"
    ELSE IF nThrew < nDel THEN "some" ELSE "all"

\* a response: its status, the id the request named, how the handler's blob
\* deletes went, and how its blob put went
Response(op, status, id, threw, put) ==
    [op |-> op, status |-> status, id |-> id, threw |-> threw, put |-> put]

NoResponse == Response("none", 0, 0, "no del", "no put")

\* a call of generateAndSaveBackgrounds: its position, loop index i, the url
\* the put returned, its location argument, and whether its catch has caught
\* a rejected addBackgroundImage
Job(pc, i, url, location, caught) ==
    [pc |-> pc, i |-> i, url |-> url, location |-> location, caught |-> caught]

NoJob == Job("none", 0, 0, Null, FALSE)

\* the upload loop: its position, the event and the number of files it was
\* called with, the file it is at, the files whose request came back ok, and
\* the file whose request made handleAddPhoto throw
Batch(pc, eventId, n, i, ok, failed) ==
    [pc |-> pc, eventId |-> eventId, n |-> n, i |-> i, ok |-> ok, failed |-> failed]

NoBatch == Batch("idle", 0, 0, 0, {}, 0)

\* ---------------------------------------------------- schema initialization

\* the statements of ensureTables in their order, each by the table or the
\* column it creates IF NOT EXISTS
Statements == <<"events", "location", "latitude", "longitude", "photos", "background_images">>

Relations == {Statements[k] : k \in 1..Len(Statements)}

\* what a statement needs to exist: ALTER TABLE events its table, and the
\* dependent tables the table they reference
Requires(k) == IF k = 1 THEN {} ELSE {"events"}

\* what the queries of the store operations on a table name
Needs(table) ==
    IF table = "events" THEN {"events", "location", "latitude", "longitude"}
    ELSE {table}

\* store operations that can be under way at once
Callers == {1, 2}

\* a store operation: pc 0 none, k in 1..6 inside ensureTables before its k-th
\* statement, 7 ensureTables has returned and the operation's query is next;
\* whether an ensureTables call of the caller has thrown, and whether a query
\* of the caller has found its table or column missing
Call(pc, threw, undefinedTable) ==
    [pc |-> pc, threw |-> threw, undefinedTable |-> undefinedTable]

NoCall == Call(0, FALSE, FALSE)

\* ------------------------------------------------------------- event modal

\* the `event` prop of the modal, the page's editingEvent (id 0: null)
EventProp(id, title, date, location) ==
    [id |-> id, title |-> title, date |-> date, location |-> location]

NoEventProp == EventProp(0, "", "", "")

\* a call of extractMetadataFromFiles / handleFiles awaiting getFilesMetadata:
\* the dateManuallySet, locationManuallySet and savedEventId its closures were
\* created with, and the number of its files
Extracting(pc, dateManuallySet, locationManuallySet, savedEventId, n) ==
    [pc |-> pc, dateManuallySet |-> dateManuallySet,
     locationManuallySet |-> locationManuallySet, savedEventId |-> savedEventId, n |-> n]

NoExtracting == Extracting("none", FALSE, FALSE, 0, 0)

\* the first date the date input shows: today
Today == "2024-01-01"

\* the page's modalOpen and editingEvent, and the useState values of the
\* mounted EventModal for `event` null; created counts the events the saves of
\* the current session have created
NoModal ==
    [isOpen |-> FALSE, event |-> NoEventProp, title |-> "", date |-> Today,
     location |-> "", latitude |-> Null, longitude |-> Null, savedEventId |-> 0,
     dateManuallySet |-> FALSE, locationManuallySet |-> FALSE, pendingFiles |-> 0,
     extract |-> NoExtracting, created |-> 0]

\* ------------------------------------------------------ metadata extraction

\* files of one batch handed to getFilesMetadata
MaxBatch == 3

\* an EXIF tag as exifr returns it: absent, a Date (its day since 1970-01-01),
\* or a string
Tag(type, time, text) == [type |-> type, time |-> time, text |-> text]
NoTag == Tag("undefined", 0, "")
DateTag(time) == Tag("Date", time, "")
StringTag(text) == Tag("string", 0, text)

\* what the geocoder answers for a position: the fetch throws, the status is
\* not OK, or the body is a place; a field the body lacks is ""
Geocode(answer, locality, city, principalSubdivision, countryName, countryCode) ==
    [answer |-> answer, locality |-> locality, city |-> city,
     principalSubdivision |-> principalSubdivision, countryName |-> countryName,
     countryCode |-> countryCode]

\* the geocoder is not asked, its fetch throws, its status is not OK
NoGeocode == Geocode("none", "", "", "", "", "")
GeocodeThrows == Geocode("throws", "", "", "", "", "")
GeocodeNotOk == Geocode("not ok", "", "", "", "", "")

\* a File and what the libraries answer for it: exifr.parse throws, returns
\* undefined or returns the picked tags; exifr.gps throws, returns undefined or
\* returns coordinates; file.lastModified, in days since 1970-01-01; and the
\* geocoder's answer for the coordinates
File(parse, dto, cd, md, gds, gps, lat, lng, lastModified, geocode) ==
    [parse |-> parse, DateTimeOriginal |-> dto, CreateDate |-> cd, ModifyDate |-> md,
     GPSDateStamp |-> gds, gps |-> gps, latitude |-> lat, longitude |-> lng,
     lastModified |-> lastModified, geocode |-> geocode]

\* the files a batch is drawn from
BatchFiles ==
    { \* no EXIF segment, a last-modified date
      File("undefined", NoTag, NoTag, NoTag, NoTag, "undefined", Null, Null, 19889, NoGeocode),
      \* no EXIF segment, last-modified 0
      File("undefined", NoTag, NoTag, NoTag, NoTag, "undefined", Null, Null, 0, NoGeocode),
      \* not an image exifr can read, last-modified 0
      File("throws", NoTag, NoTag, NoTag, NoTag, "throws", Null, Null, 0, NoGeocode),
      \* a camera photo without position
      File("tags", DateTag(19723), NoTag, NoTag, NoTag, "undefined", Null, Null, 19889,
           NoGeocode),
      \* date tags as strings, no position, last-modified 0
      File("tags", NoTag, StringTag("2024:06:15 14:30:00"), NoTag, NoTag,
           "undefined", Null, Null, 0, NoGeocode),
      \* a position and no date at all
      File("undefined", NoTag, NoTag, NoTag, NoTag, "coords", "48.8566", "2.3522", 0,
           Geocode("ok", "Paris", "Paris", "Ile-de-France", "France", "FR")),
      \* a camera photo with a position the geocoder's fetch throws for
      File("tags", DateTag(19889), NoTag, NoTag, NoTag, "coords", "48.8566", "2.3522",
           19889, GeocodeThrows),
      \* an unreadable date tag, a GPS date stamp, a position
      File("tags", StringTag("garbage"), NoTag, NoTag, StringTag("2023:12:25"),
           "coords", "51.5074", "-0.1278", 19889,
           Geocode("ok", "London", "", "England", "United Kingdom", "GB")),
      \* a position of more decimals the geocoder answers a non-OK status for
      File("undefined", NoTag, NoTag, NoTag, NoTag, "coords", "40.712776", "-74.005974",
           0, GeocodeNotOk),
      \* a position the geocoder knows the domestic country of, and nothing else
      File("undefined", NoTag, NoTag, NoTag, NoTag, "coords", "40.712776", "-74.005974",
           0, Geocode("ok", "", "", "", "United States of America (the)", "US")),
      \* a position the geocoder knows the city and the region of
      File("undefined", NoTag, NoTag, NoTag, NoTag, "coords", "40.712776", "-74.005974",
           0, Geocode("ok", "", "New York City", "New York",
                      "United States of America (the)", "US")),
      \* date tags exifr.parse throws for, and a position
      File("throws", NoTag, NoTag, NoTag, NoTag, "coords", "48.8566", "2.3522", 19889,
           Geocode("ok", "Paris", "Paris", "Ile-de-France", "France", "FR")),
      \* a camera photo with GPS tags exifr.gps throws for
      File("tags", DateTag(19723), NoTag, NoTag, NoTag, "throws", Null, Null, 19889,
           NoGeocode),
      \* an unreadable DateTimeOriginal and a CreateDate
      File("tags", StringTag("garbage"), DateTag(19723), NoTag, NoTag, "undefined",
           Null, Null, 19889, NoGeocode) }

\* formatDate(d): the YYYY-MM-DD of a Date
formatDate(time) ==
    CASE time = 0 -> "1970-01-01"
      [] time = 19723 -> "2024-01-01"
      [] time = 19889 -> "2024-06-15"

\* parseExifDateString(str): the first (\d{4})[:\-/](\d{2})[:\-/](\d{2}) of the
\* string joined by "-", or null
parseExifDateString(str) ==
    CASE str = "2024:06:15 14:30:00" -> "2024-06-15"
      [] str = "2023:12:25" -> "2023-12-25"
      [] OTHER -> Null

\* n.toFixed(4): the number rounded to 4 decimal places
toFixed4(n) ==
    CASE n = "48.8566" -> "48.8566"
      [] n = "2.3522" -> "2.3522"
      [] n = "51.5074" -> "51.5074"
      [] n = "-0.1278" -> "-0.1278"
      [] n = "40.712776" -> "40.7128"
      [] n = "-74.005974" -> "-74.0060"

\* fallbackCoords(lat, lng): `${lat.toFixed(4)}, ${lng.toFixed(4)}`
fallbackCoords(lat, lng) == toFixed4(lat) \o ", " \o toFixed4(lng)

\* parts.join(", ")
RECURSIVE join(_)
join(parts) ==
    IF Len(parts) = 1 THEN parts[1] ELSE parts[1] \o ", " \o join(Tail(parts))

\* mutant: the country is pushed for every countryCode
geocodePartsAnyCountry(data) ==
    (IF data.locality # "" THEN <<data.locality>>
     ELSE IF data.city # "" THEN <<data.city>> ELSE <<>>)
    \o (IF data.principalSubdivision # "" THEN <<data.principalSubdivision>> ELSE <<>>)
    \o (IF data.countryName # "" THEN <<data.countryName>> ELSE <<>>)

\* parts: locality or else city, principalSubdivision, and countryName unless
\* countryCode is "US"
geocodeParts(data) ==
    (IF data.locality # "" THEN <<data.locality>>
     ELSE IF data.city # "" THEN <<data.city>> ELSE <<>>)
    \o (IF data.principalSubdivision # "" THEN <<data.principalSubdivision>> ELSE <<>>)
    \o (IF data.countryName # "" /\ data.countryCode # "US"
        THEN <<data.countryName>> ELSE <<>>)

\* reverseGeocode(lat, lng): fallbackCoords when the fetch throws (the catch) or
\* the status is not OK, the joined parts of the place, and fallbackCoords when
\* there is no part
reverseGeocode(file, lat, lng) ==
    IF file.geocode.answer # "ok" THEN fallbackCoords(lat, lng)
    ELSE IF Len(geocodeParts(file.geocode)) > 0 THEN join(geocodeParts(file.geocode))
    ELSE fallbackCoords(lat, lng)

\* JavaScript truthiness of a tag
TruthyTag(tag) == tag.type = "Date" \/ (tag.type = "string" /\ tag.text # "")

\* `exif.DateTimeOriginal || exif.CreateDate || exif.ModifyDate`
dateValue(file) ==
    IF TruthyTag(file.DateTimeOriginal) THEN file.DateTimeOriginal
    ELSE IF TruthyTag(file.CreateDate) THEN file.CreateDate
    ELSE file.ModifyDate

\* step 1 of getPhotoMetadata: the date of the tags, inside its try/catch
exifDate(file) ==
    IF file.parse # "tags" THEN Null
    ELSE LET v == dateValue(file)
             d == IF v.type = "Date" THEN formatDate(v.time)
                  ELSE IF v.type = "string" THEN parseExifDateString(v.text)
                  ELSE Null
         IN IF Falsy(d) /\ TruthyTag(file.GPSDateStamp) /\ file.GPSDateStamp.type = "string"
            THEN parseExifDateString(file.GPSDateStamp.text)
            ELSE d

\* a per-file result
PhotoMetadata(date, location, latitude, longitude) ==
    [date |-> date, location |-> location, latitude |-> latitude, longitude |-> longitude]

\* a getPhotoMetadata call whose promise rejects
Rejected == PhotoMetadata("rejected", Null, Null, Null)

\* mutant: steps 1 and 2 without their try/catch, so that a throw of exifr
\* rejects the promise
getPhotoMetadataUncaught(file) ==
    LET date1 == exifDate(file)
        hasGps == file.gps = "coords"
        latitude == IF hasGps THEN file.latitude ELSE Null
        longitude == IF hasGps THEN file.longitude ELSE Null
        date == IF Falsy(date1) /\ file.lastModified # 0
                THEN formatDate(file.lastModified) ELSE date1
        location == IF latitude # Null /\ longitude # Null
                    THEN reverseGeocode(file, latitude, longitude) ELSE Null
    IN IF file.parse = "throws" \/ file.gps = "throws" THEN Rejected
       ELSE PhotoMetadata(date, location, latitude, longitude)

\* getPhotoMetadata(file): the date of the tags, the coordinates of exifr.gps
\* inside its try/catch, the fallback `!result.date && file.lastModified`, and
\* the place of the coordinates
getPhotoMetadata(file) ==
    LET date1 == exifDate(file)
        hasGps == file.gps = "coords"
        latitude == IF hasGps THEN file.latitude ELSE Null
        longitude == IF hasGps THEN file.longitude ELSE Null
        date == IF Falsy(date1) /\ file.lastModified # 0
                THEN formatDate(file.lastModified) ELSE date1
        location == IF latitude # Null /\ longitude # Null
                    THEN reverseGeocode(file, latitude, longitude) ELSE Null
    IN PhotoMetadata(date, location, latitude, longitude)

\* the least index of a nonempty set of indices
FirstIndex(I) == CHOOSE i \in I : \A j \in I : i <= j

\* mutant: the date of the last file that has one
findDateLast(rs) ==
    LET I == {i \in 1..Len(rs) : ~Falsy(rs[i].date)}
    IN IF I = {} THEN Null ELSE rs[CHOOSE i \in I : \A j \in I : j <= i].date

\* `results[0]?.date || results.find((r) => r.date)?.date || null`
findDate(rs) ==
    LET I == {i \in 1..Len(rs) : ~Falsy(rs[i].date)}
    IN IF Len(rs) > 0 /\ ~Falsy(rs[1].date) THEN rs[1].date
       ELSE IF I = {} THEN Null ELSE rs[FirstIndex(I)].date

\* mutant: the first photo's location, without the fall back
firstWithLocationOnly(rs) ==
    IF Len(rs) > 0 /\ ~Falsy(rs[1].location) THEN 1 ELSE 0

\* `results[0]?.location ? results[0] : results.find((r) => r.location) || null`,
\* as the index of the result (0: null)
firstWithLocation(rs) ==
    LET I == {i \in 1..Len(rs) : ~Falsy(rs[i].location)}
    IN IF Len(rs) > 0 /\ ~Falsy(rs[1].location) THEN 1
       ELSE IF I = {} THEN 0 ELSE FirstIndex(I)

\* what getFilesMetadata returns for the per-file results
getFilesMetadata(rs) ==
    LET k == firstWithLocation(rs)
    IN [done |-> TRUE,
        date |-> findDate(rs),
        location |-> IF k = 0 \/ Falsy(rs[k].location) THEN Null ELSE rs[k].location,
        latitude |-> IF k = 0 THEN Null ELSE rs[k].latitude,
        longitude |-> IF k = 0 THEN Null ELSE rs[k].longitude]

\* the promise of getFilesMetadata has rejected
MetaRejected == [done |-> TRUE, date |-> "rejected", location |-> Null, latitude |-> Null,
                 longitude |-> Null]

\* getFilesMetadata has not returned
NoMeta == [done |-> FALSE, date |-> Null, location |-> Null, latitude |-> Null,
           longitude |-> Null]

\* a getPhotoMetadata call of `Promise.all(files.map(getPhotoMetadata))` that
\* has not resolved
Pending == [date |-> "pending", location |-> Null, latitude |-> Null, longitude |-> Null]

\* getFilesMetadata(files) is called with a batch: every file's
\* getPhotoMetadata call is started
ExtractInit ==
    /\ events = {}
    /\ photos = {}
    /\ backgrounds = {}
    /\ blobs = {}
    /\ nextEventId = 1
    /\ nextRowId = 1
    /\ nextUrl = 1
    /\ started = 0
    /\ putOk = {}
    /\ deleted = {}
    /\ removed = {}
    /\ jobs = [e \in EventIds |-> NoJob]
    /\ inflight = EmptyBag
    /\ batch = NoBatch
    /\ resp = NoResponse
    /\ files \in UNION {[1..n -> BatchFiles] : n \in 0..MaxBatch}
    /\ results = [i \in 1..Len(files) |-> Pending]
    /\ meta = NoMeta
    /\ tablesInitialized = TRUE
    /\ relations = Relations
    /\ calls = [c \in Callers |-> NoCall]
    /\ modal = NoModal

\* the getPhotoMetadata call of file i resolves
GetPhotoMetadata(i) ==
    /\ results[i] = Pending
    /\ results' = [results EXCEPT ![i] = getPhotoMetadata(files[i])]
    /\ UNCHANGED <<tables, blobs, counters, started, putOk, deleted, removed, jobs,
                   inflight, batch, resp, files, meta, schema, modal>>

\* Promise.all has settled: it rejects when a call has rejected, and so does
\* getFilesMetadata; otherwise getFilesMetadata combines the results and returns
GetFilesMetadata ==
    /\ ~meta.done
    /\ \A i \in 1..Len(results) : results[i] # Pending
    /\ meta' = IF \E i \in 1..Len(results) : results[i] = Rejected
               THEN MetaRejected ELSE getFilesMetadata(results)
    /\ UNCHANGED <<tables, blobs, counters, started, putOk, deleted, removed, jobs,
                   inflight, batch, resp, files, results, schema, modal>>

ExtractNext ==
    \/ \E i \in 1..Len(files) : GetPhotoMetadata(i)
    \/ GetFilesMetadata

ExtractSpec == ExtractInit /\ [][ExtractNext]_vars

Init ==
    /\ events = {}
    /\ photos = {}
    /\ backgrounds = {}
    /\ blobs = {}
    /\ nextEventId = 1
    /\ nextRowId = 1
    /\ nextUrl = 1
    /\ started = 0
    /\ putOk = {}
    /\ deleted = {}
    /\ removed = {}
    /\ jobs = [e \in EventIds |-> NoJob]
    /\ inflight = EmptyBag
    /\ batch = NoBatch
    /\ resp = NoResponse
    /\ files = <<>>
    /\ results = <<>>
    /\ meta = NoMeta
    /\ tablesInitialized = TRUE
    /\ relations = Relations
    /\ calls = [c \in Callers |-> NoCall]
    /\ modal = NoModal

\* ------------------------------------------------------------ POST /events

\* mutant: the job is started without the `if (location)`
StartsJobAlways(location) == TRUE

\* `if (location)`: the job is started for a truthy location only
StartsJob(location) == ~Falsy(location)

\* generateAndSaveBackgrounds up to its first await: without GEMINI_API_KEY
\* it returns [] at once, otherwise it is in the loop at i = 0, awaiting the
\* image model
JobStart(apiKey, location) ==
    IF apiKey THEN Job("gen", 0, 0, location, FALSE)
    ELSE Job("skipped", 0, 0, location, FALSE)

\* what one POST /events starts: the request and, if it gets there, the job
Starts(title, date, location) ==
    IF ~(Falsy(title) \/ Falsy(date)) /\ DateColumn(date) # "error" /\ StartsJob(location)
    THEN 2 ELSE 1

\* the whole handler: validation, `await createEvent(...)` (an INSERT the DATE
\* column can reject: a throw, so the outer catch), the job's start (not
\* awaited), the response.  updated_at counts the row's updates.
PostEvents(title, date, location, latitude, longitude, apiKey) ==
    /\ UNCHANGED <<extraction, schema, modal>>
    /\ started + Starts(title, date, location) <= MaxStarted
    /\ started' = started + Starts(title, date, location)
    /\ IF Falsy(title) \/ Falsy(date)
       THEN /\ resp' = Response("createEvent", 400, 0, "no del", "no put")
            /\ UNCHANGED <<tables, nextEventId, jobs>>
       ELSE IF DateColumn(date) = "error"
       THEN /\ resp' = Response("createEvent", 500, 0, "no del", "no put")
            /\ UNCHANGED <<tables, nextEventId, jobs>>
       ELSE LET id == nextEventId
                row == [id |-> id, title |-> title, date |-> DateColumn(date),
                        location |-> IF Falsy(location) THEN Null ELSE location,
                        latitude |-> latitude, longitude |-> longitude,
                        updated_at |-> 0]
                job == IF StartsJob(location) THEN JobStart(apiKey, location) ELSE NoJob
            IN /\ events' = events \cup {row}
               /\ nextEventId' = id + 1
               /\ jobs' = [jobs EXCEPT ![id] = job]
               /\ resp' = Response("createEvent", 201, id, "no del", "no put")
               /\ UNCHANGED <<photos, backgrounds>>
    /\ UNCHANGED <<blobs, nextRowId, nextUrl, putOk, deleted, removed, inflight, batch>>

\* ------------------------------------------------------ PUT /events/{id}

\* mutant: the UPDATE without its `WHERE id = ${id}`
updateEventRowsEverywhere(id, title, date, location, latitude, longitude) ==
    {[id |-> e.id, title |-> title, date |-> DateColumn(date), location |-> location,
      latitude |-> latitude, longitude |-> longitude,
      updated_at |-> e.updated_at + 1] : e \in events}

\* updateEvent's `UPDATE events SET ... updated_at = NOW() WHERE id = ${id}`
updateEventRows(id, title, date, location, latitude, longitude) ==
    {IF e.id = id
     THEN [id |-> id, title |-> title, date |-> DateColumn(date), location |-> location,
           latitude |-> latitude, longitude |-> longitude,
           updated_at |-> e.updated_at + 1]
     ELSE e : e \in events}

\* mutant: the handler answers with the event without `if (!event)`
PutEventsStatusUnchecked(found) == 200

\* `if (!event)` 404, else the event
PutEventsStatus(found) == IF found THEN 200 ELSE 404

\* the whole handler: validation, `await updateEvent(id, title, date,
\* location ?? null, latitude ?? null, longitude ?? null)` (an UPDATE the DATE
\* column can reject: a throw, so the outer catch), the response.  The two
\* SELECTs of updateEvent only fill the response's photo and background lists.
PutEvents(id, title, date, location, latitude, longitude) ==
    /\ UNCHANGED <<extraction, schema, modal>>
    /\ started < MaxStarted
    /\ started' = started + 1
    /\ IF Falsy(title) \/ Falsy(date)
       THEN /\ resp' = Response("updateEvent", 400, id, "no del", "no put")
            /\ events' = events
       ELSE IF DateColumn(date) = "error"
       THEN /\ resp' = Response("updateEvent", 500, id, "no del", "no put")
            /\ events' = events
       ELSE /\ events' = updateEventRows(id, title, date, location, latitude, longitude)
            /\ resp' = Response("updateEvent", PutEventsStatus(EventExists(id)), id,
                                "no del", "no put")
    /\ UNCHANGED <<photos, backgrounds, blobs, counters, putOk, deleted, removed, jobs,
                   inflight, batch>>

\* ------------------------------------------------ generateAndSaveBackgrounds

\* end of one iteration of `for (let i = 0; i < SKETCH_PROMPTS.length; i++)`
NextPrompt(j) ==
    IF j.i + 1 < SketchPromptsLength
    THEN Job("gen", j.i + 1, 0, j.location, j.caught)
    ELSE Job("done", 0, 0, j.location, j.caught)

\* mutant: the loop's catch rethrows, out of generateAndSaveBackgrounds
JobCatchRethrow(j) == [j EXCEPT !.pc = "threw"]

\* `catch (error) { console.error(...) }` inside the loop: log and go on
JobCatch(j) == NextPrompt(j)

\* `await ai.models.generateContent(...)` and, for an image part, `await
\* put(...)`: the first touches no state of the stores, so the two awaits are
\* one step.  No usable part: continue.  A throw of either call: the catch.
\* Otherwise the put has returned a fresh url.
JobGenerateAndPut(e) ==
    /\ UNCHANGED <<extraction, schema, modal>>
    /\ jobs[e].pc = "gen"
    /\ \/ /\ nextUrl <= MaxPuts
          /\ blobs' = blobs \cup {nextUrl}
          /\ putOk' = putOk \cup {nextUrl}
          /\ nextUrl' = nextUrl + 1
          /\ jobs' = [jobs EXCEPT ![e] = Job("add", @.i, nextUrl, @.location, @.caught)]
       \/ /\ jobs' = [jobs EXCEPT ![e] = NextPrompt(@)]
          /\ UNCHANGED <<blobs, putOk, nextUrl>>
       \/ /\ jobs' = [jobs EXCEPT ![e] = JobCatch(@)]
          /\ UNCHANGED <<blobs, putOk, nextUrl>>
    /\ UNCHANGED <<tables, nextEventId, nextRowId, started, deleted, removed,
                   inflight, batch>>
    /\ resp' = NoResponse

\* `await addBackgroundImage(eventId, blob.url, promptText)`, the INSERT the
\* foreign key rejects for a missing event (a throw, so the loop's catch);
\* then urls.push and break
JobAddBackground(e) ==
    /\ UNCHANGED <<extraction, schema, modal>>
    /\ jobs[e].pc = "add"
    /\ IF ForeignKeyHolds(e)
       THEN /\ backgrounds' = backgrounds \cup
                   {[id |-> nextRowId, event_id |-> e, url |-> jobs[e].url,
                     created_at |-> nextRowId]}
            /\ nextRowId' = nextRowId + 1
            /\ jobs' = [jobs EXCEPT ![e] = NextPrompt(@)]
       ELSE /\ jobs' = [jobs EXCEPT ![e] = JobCatch([@ EXCEPT !.caught = TRUE])]
            /\ UNCHANGED <<backgrounds, nextRowId>>
    /\ UNCHANGED <<events, photos, blobs, nextEventId, nextUrl, started, putOk,
                   deleted, removed, inflight, batch>>
    /\ resp' = NoResponse

\* ------------------------------------------------------------- upload loop

\* a response's `res.ok`
ResOk(status) == status \in {200, 201}

\* the loop after the response to its request for `file`.  handleAddPhoto
\* throws on `!res.ok` and the throw leaves the `for` for uploadFiles' catch;
\* otherwise the loop goes on to the next file.
BatchAfter(file, status) ==
    IF file = 0 THEN batch
    ELSE IF ResOk(status)
         THEN Batch(IF file = batch.n THEN "done" ELSE "send", batch.eventId,
                    batch.n, file + 1, batch.ok \cup {file}, batch.failed)
         ELSE Batch("failed", batch.eventId, batch.n, file, batch.ok, file)

\* mutant: the loop calls onAddPhoto without `await` and goes on to the next
\* file while the request is under way
BatchNotWaiting(file) ==
    IF file = 0 THEN batch
    ELSE IF file = batch.n THEN [batch EXCEPT !.pc = "wait"]
    ELSE [batch EXCEPT !.i = file + 1]

\* the loop while handleAddPhoto awaits its fetch
BatchWaiting(file) ==
    IF file = 0 THEN batch ELSE [batch EXCEPT !.pc = "wait"]

\* ---------------------------------------------- POST /events/{id}/photos

\* ids and urls a request may name: every one handed out so far, and 0
KnownEventIds == 0..(nextEventId - 1)
KnownRowIds == 0..(nextRowId - 1)
KnownUrls == 0..(nextUrl - 1)

\* mutant: a put that throws is caught next to the call, and the handler goes
\* on to addPhoto with the url of no blob
PostPhotoPutSwallowed(eventId, hasFile, sortOrder, file) ==
    /\ UNCHANGED <<extraction, schema, modal>>
    /\ HasFreeSlot
    /\ started < MaxStarted
    /\ started' = started + 1
    /\ \/ /\ ~hasFile
          /\ resp' = Response("addPhoto", 400, eventId, "no del", "no put")
          /\ batch' = BatchAfter(file, 400)
          /\ UNCHANGED <<blobs, putOk, nextUrl, inflight>>
       \/ /\ hasFile
          /\ nextUrl <= MaxPuts
          /\ blobs' = blobs \cup {nextUrl}
          /\ putOk' = putOk \cup {nextUrl}
          /\ nextUrl' = nextUrl + 1
          /\ inflight' = Suspend(Handler("addPhoto", eventId, nextUrl, sortOrder, "no del", file, 0, {}))
          /\ batch' = BatchWaiting(file)
          /\ resp' = NoResponse
       \/ /\ hasFile
          /\ inflight' = Suspend(Handler("addPhoto", eventId, 0, sortOrder, "no del", file, 0, {}))
          /\ batch' = BatchWaiting(file)
          /\ resp' = NoResponse
          /\ UNCHANGED <<blobs, putOk, nextUrl>>
    /\ UNCHANGED <<tables, nextEventId, nextRowId, deleted, removed, jobs>>

\* the handler up to `await put(...)`: 400 without a file; the put returns a
\* fresh url or throws into the outer catch (500)
PostPhotoPut(eventId, hasFile, sortOrder, file) ==
    /\ UNCHANGED <<extraction, schema, modal>>
    /\ HasFreeSlot
    /\ started < MaxStarted
    /\ started' = started + 1
    /\ \/ /\ ~hasFile
          /\ resp' = Response("addPhoto", 400, eventId, "no del", "no put")
          /\ batch' = BatchAfter(file, 400)
          /\ UNCHANGED <<blobs, putOk, nextUrl, inflight>>
       \/ /\ hasFile
          /\ nextUrl <= MaxPuts
          /\ blobs' = blobs \cup {nextUrl}
          /\ putOk' = putOk \cup {nextUrl}
          /\ nextUrl' = nextUrl + 1
          /\ inflight' = Suspend(Handler("addPhoto", eventId, nextUrl, sortOrder, "no del", file, 0, {}))
          /\ batch' = BatchWaiting(file)
          /\ resp' = NoResponse
       \/ /\ hasFile
          /\ resp' = Response("addPhoto", 500, eventId, "no del", "failed")
          /\ batch' = BatchAfter(file, 500)
          /\ UNCHANGED <<blobs, putOk, nextUrl, inflight>>
    /\ UNCHANGED <<tables, nextEventId, nextRowId, deleted, removed, jobs>>

\* `await addPhoto(eventId, blob.url, sortOrder)`: the INSERT, which the
\* foreign key rejects for a missing event (a throw, so the outer catch: 500).
\* `file` is no column: it records which file of the upload loop the blob at
\* the row's url holds (0 for a file of another request).
PostPhotoAdd(h) ==
    /\ UNCHANGED <<extraction, schema, modal>>
    /\ IF ForeignKeyHolds(h.id)
       THEN /\ photos' = photos \cup
                   {[id |-> nextRowId, event_id |-> h.id, url |-> h.url,
                     sort_order |-> h.sort, created_at |-> nextRowId,
                     file |-> h.file]}
            /\ nextRowId' = nextRowId + 1
            /\ resp' = Response("addPhoto", 201, h.id, "no del", "ok")
            /\ batch' = BatchAfter(h.file, 201)
       ELSE /\ resp' = Response("addPhoto", 500, h.id, "no del", "ok")
            /\ batch' = BatchAfter(h.file, 500)
            /\ UNCHANGED <<photos, nextRowId>>
    /\ inflight' = Resume(h)
    /\ UNCHANGED <<events, backgrounds, blobs, nextEventId, nextUrl, started, putOk,
                   deleted, removed, jobs>>

\* uploadFiles(eventId, files) is called: the event is one the modal has saved
BatchStart(eventId, n) ==
    /\ UNCHANGED <<extraction, schema, modal>>
    /\ batch.pc = "idle"
    /\ batch' = Batch("send", eventId, n, 1, {}, 0)
    /\ resp' = NoResponse
    /\ UNCHANGED <<tables, blobs, counters, started, putOk, deleted, removed, jobs, inflight>>

\* `await onAddPhoto(eventId, file)`: handleAddPhoto's fetch, whose form holds
\* the file and no sort_order
BatchSend ==
    /\ batch.pc = "send"
    /\ PostPhotoPut(batch.eventId, TRUE, 0, batch.i)

\* -------------------------------------------- DELETE /events/{id}/photos

\* `if (url) { try { await del(url) } catch {} }`: the blob is removed, or the
\* call throws and the blob stays; a falsy url skips the call
DeletePhotoBlob(eventId, photoId, url) ==
    /\ UNCHANGED <<extraction, schema, modal>>
    /\ HasFreeSlot
    /\ started < MaxStarted
    /\ started' = started + 1
    /\ \/ /\ url # 0
          /\ blobs' = blobs \ {url}
          /\ inflight' = Suspend(Handler("removePhoto", eventId, 0, 0, Threw(1, 0), 0,
                                            photoId, {}))
       \/ /\ url # 0
          /\ blobs' = blobs
          /\ inflight' = Suspend(Handler("removePhoto", eventId, 0, 0, Threw(1, 1), 0,
                                            photoId, {}))
       \/ /\ url = 0
          /\ blobs' = blobs
          /\ inflight' = Suspend(Handler("removePhoto", eventId, 0, 0, Threw(0, 0), 0,
                                            photoId, {}))
    /\ UNCHANGED <<tables, counters, putOk, deleted, removed, jobs, batch>>
    /\ resp' = NoResponse

\* mutant: the del's try/catch is missing, and a throwing del reaches the
\* handler's outer catch
DeletePhotoStatusUncaught(ok, threw) ==
    IF threw = "all" THEN 500 ELSE IF ok THEN 200 ELSE 404

\* `if (!deleted)` 404, else success
DeletePhotoStatus(ok, threw) == IF ok THEN 200 ELSE 404

\* `const deleted = await removePhoto(photoId)` and the response
DeletePhotoRow(h) ==
    /\ UNCHANGED <<extraction, schema, modal>>
    /\ LET ok == removePhotoResult(h.photoId)
       IN /\ photos' = removePhotoRows(h.photoId)
          /\ removed' = IF ok THEN removed \cup {h.photoId} ELSE removed
          /\ resp' = Response("removePhoto", DeletePhotoStatus(ok, h.threw), h.photoId,
                              h.threw, "no put")
    /\ inflight' = Resume(h)
    /\ UNCHANGED <<events, backgrounds, blobs, counters, started, putOk, deleted,
                   jobs, batch>>

\* ------------------------------------------------- DELETE /events/{id}

\* allUrls: the urls of event.photos and of event.backgrounds
AllUrls(event) ==
    {event.photos[k].url : k \in 1..Len(event.photos)}
        \cup {event.backgrounds[k].url : k \in 1..Len(event.backgrounds)}

\* `const event = await getEvent(id)` and, for an event, the loop
\* `for (const url of allUrls) { try { await del(url) } catch {} }`: each del
\* removes its blob, or throws and leaves it.  getEvent's three SELECTs are
\* read as one snapshot, and the dels, which touch no table, are one step.
DeleteEventBlobs(id) ==
    /\ UNCHANGED <<extraction, schema, modal>>
    /\ HasFreeSlot
    /\ started < MaxStarted
    /\ started' = started + 1
    /\ LET event == getEvent(id)
           urls == IF event = NotFound THEN {} ELSE AllUrls(event)
       IN \E thrown \in SUBSET urls :
             /\ blobs' = blobs \ (urls \ thrown)
             /\ inflight' = Suspend(Handler("deleteEvent", id, 0, 0,
                                            Threw(Cardinality(urls), Cardinality(thrown)),
                                            0, 0, urls))
    /\ UNCHANGED <<tables, counters, putOk, deleted, removed, jobs, batch>>
    /\ resp' = NoResponse

\* mutant: the loop's try/catch is missing, and a throwing del reaches the
\* handler's outer catch
DeleteEventStatusUncaught(ok, threw) ==
    IF threw \in {"some", "all"} THEN 500 ELSE IF ok THEN 200 ELSE 404

\* `if (!deleted)` 404, else success
DeleteEventStatus(ok, threw) == IF ok THEN 200 ELSE 404

\* deleteEvent's `DELETE FROM events WHERE id = ${id}`
deleteEventRows(id) == {e \in events : e.id # id}

\* `const deleted = await deleteEvent(id)`, with the cascades of the two
\* dependent tables, and the response
DeleteEventRow(h) ==
    /\ UNCHANGED <<extraction, schema, modal>>
    /\ LET ok == EventExists(h.id)
       IN /\ events' = deleteEventRows(h.id)
          /\ photos' = CascadePhotos(h.id)
          /\ backgrounds' = CascadeBackgrounds(h.id)
          /\ deleted' = IF ok THEN deleted \cup {h.id} ELSE deleted
          /\ resp' = Response("deleteEvent", DeleteEventStatus(ok, h.threw), h.id,
                              h.threw, "no put")
    /\ inflight' = Resume(h)
    /\ UNCHANGED <<blobs, counters, started, putOk, removed, jobs, batch>>

\* ------------------------------------------------------------- event modal session

\* what the user types into the title, date and location inputs
ModalTitles == {"", "Trip "}
ModalDates == {"", "2023-06-15"}
ModalLocations == {"", "Rome"}

\* str.trim()
trim(str) == IF str = "Trip " THEN "Trip" ELSE str

\* the photos the user picks: one without any data, one with a date and a
\* position the geocoder names, one with a date and a position it fails for
ModalFiles ==
    {f \in BatchFiles :
        /\ f.parse # "throws"
        /\ f.DateTimeOriginal \in {NoTag, DateTag(19889)}
        /\ f.CreateDate = NoTag
        /\ f.gps = "undefined" => f.lastModified = 0
        /\ f.gps = "coords" => f.latitude = "48.8566"}

\* what getFilesMetadata resolves to for a batch that starts with such a photo
Proposals == {getFilesMetadata(<<getPhotoMetadata(f)>>) : f \in ModalFiles}

\* a step of the modal: no request is sent
ModalStep(m) ==
    /\ modal.isOpen
    /\ resp.op \notin {"createEvent", "updateEvent"}
    /\ modal' = m
    /\ resp' = NoResponse
    /\ UNCHANGED <<tables, blobs, counters, started, putOk, deleted, removed, jobs,
                   inflight, batch, extraction, schema>>

\* openCreateModal: editingEvent null, modalOpen true; the mounted modal keeps
\* its state
OpenCreateModal ==
    /\ ~modal.isOpen
    /\ modal' = [modal EXCEPT !.isOpen = TRUE, !.event = NoEventProp, !.created = 0]
    /\ resp' = NoResponse
    /\ UNCHANGED <<tables, blobs, counters, started, putOk, deleted, removed, jobs,
                   inflight, batch, extraction, schema>>

\* openEditModal(event), for an event of the list
OpenEditModal(e) ==
    /\ ~modal.isOpen
    /\ modal' = [modal EXCEPT !.isOpen = TRUE,
                              !.event = EventProp(e.id, e.title, e.date, e.location),
                              !.created = 0]
    /\ resp' = NoResponse
    /\ UNCHANGED <<tables, blobs, counters, started, putOk, deleted, removed, jobs,
                   inflight, batch, extraction, schema>>

\* closeModal
CloseModal == ModalStep([modal EXCEPT !.isOpen = FALSE, !.event = NoEventProp])

\* onChange of the title input
SetTitle(t) == ModalStep([modal EXCEPT !.title = t])

\* onChange of the date input
SetDate(d) == ModalStep([modal EXCEPT !.date = d, !.dateManuallySet = TRUE])

\* onChange of the location input
SetLocation(l) == ModalStep([modal EXCEPT !.location = l, !.locationManuallySet = TRUE])

\* the upload loop is not running
BatchIdle == batch.pc \in {"idle", "done", "failed"}

\* handleFiles(files) up to `await getFilesMetadata(...)`, with the closures of
\* the render it was called in
HandleFiles(n) ==
    /\ modal.extract.pc = "none"
    /\ BatchIdle
    /\ modal.pendingFiles + n <= MaxFiles
    /\ ModalStep([modal EXCEPT !.extract =
                      Extracting("await", modal.dateManuallySet, modal.locationManuallySet,
                                 modal.savedEventId, n)])

\* `if (meta.latitude != null && meta.longitude != null)` setLatitude, setLongitude
proposedCoordinates(proposal, current, proposed) ==
    IF proposal.latitude = Null \/ proposal.longitude = Null THEN current ELSE proposed

\* getFilesMetadata has resolved: extractMetadataFromFiles applies the proposal
\* under the manually-set flags of its closure; then handleFiles stages the
\* files, or starts uploadFiles for the savedEventId of its closure
ExtractReturn(proposal) ==
    /\ modal.extract.pc = "await"
    /\ modal.isOpen
    /\ resp.op \notin {"createEvent", "updateEvent"}
    /\ LET x == modal.extract
           setDate == ~Falsy(proposal.date) /\ ~x.dateManuallySet
           setLocation == ~Falsy(proposal.location) /\ ~x.locationManuallySet
       IN /\ modal' = [modal EXCEPT
                 !.date = IF setDate THEN proposal.date ELSE @,
                 !.location = IF setLocation THEN proposal.location ELSE @,
                 !.latitude = proposedCoordinates(proposal, @, proposal.latitude),
                 !.longitude = proposedCoordinates(proposal, @, proposal.longitude),
                 !.pendingFiles = IF x.savedEventId = 0 THEN @ + x.n ELSE @,
                 !.extract = NoExtracting]
          /\ batch' = IF x.savedEventId = 0 THEN batch
                      ELSE Batch("send", x.savedEventId, x.n, 1, {}, 0)
    /\ resp' = NoResponse
    /\ UNCHANGED <<tables, blobs, counters, started, putOk, deleted, removed, jobs,
                   inflight, extraction, schema>>

\* the Save button is rendered
fieldsChanged ==
    \/ modal.savedEventId = 0
    \/ modal.event.id = 0
    \/ modal.title # modal.event.title
    \/ modal.date # modal.event.date
    \/ modal.location # (IF modal.event.location = Null THEN "" ELSE modal.event.location)

\* `if (editingEvent)` PUT on its id, else POST: the id handleSaveEvent sends a
\* PUT to (0: it sends a POST)
SavesTo(m) == m.event.id

\* handleSave up to the response of onSave: `if (!title.trim() || !date) return`,
\* then handleSaveEvent's request with the modal's fields
HandleSave ==
    /\ modal.isOpen
    /\ resp.op \notin {"createEvent", "updateEvent"}
    /\ fieldsChanged
    /\ BatchIdle
    /\ ~Falsy(trim(modal.title))
    /\ ~Falsy(modal.date)
    /\ LET location == IF Falsy(trim(modal.location)) THEN Null ELSE trim(modal.location)
       IN IF SavesTo(modal) # 0
          THEN PutEvents(SavesTo(modal), trim(modal.title), modal.date, location,
                         modal.latitude, modal.longitude)
          ELSE PostEvents(trim(modal.title), modal.date, location,
                          modal.latitude, modal.longitude, FALSE)

\* handleSave after onSave: a failed response throws into the catch; otherwise
\* setSavedEventId, and the pending files are sent one after another and
\* cleared
HandleSaveReturn ==
    /\ resp.op \in {"createEvent", "updateEvent"}
    /\ IF ResOk(resp.status)
       THEN /\ modal' = [modal EXCEPT
                   !.savedEventId = resp.id,
                   !.pendingFiles = 0,
                   !.created = IF resp.op = "createEvent" THEN @ + 1 ELSE @]
            /\ batch' = IF modal.pendingFiles = 0 THEN batch
                        ELSE Batch("send", resp.id, modal.pendingFiles, 1, {}, 0)
       ELSE UNCHANGED <<modal, batch>>
    /\ resp' = NoResponse
    /\ UNCHANGED <<tables, blobs, counters, started, putOk, deleted, removed, jobs,
                   inflight, extraction, schema>>

\* the open modal while the user edits its fields and picks photos, and saves
\* nothing
ProposalNext ==
    \/ OpenCreateModal
    \/ CloseModal
    \/ \E t \in ModalTitles : SetTitle(t)
    \/ \E d \in ModalDates : SetDate(d)
    \/ \E l \in ModalLocations : SetLocation(l)
    \/ \E n \in 1..MaxFiles : HandleFiles(n)
    \/ \E proposal \in Proposals : ExtractReturn(proposal)

ProposalSpec == Init /\ [][ProposalNext]_vars

\* the page while the user opens the modal, edits title and date, saves and
\* closes, and picks no photo
SessionNext ==
    \/ OpenCreateModal
    \/ \E e \in events : OpenEditModal(e)
    \/ CloseModal
    \/ \E t \in ModalTitles : SetTitle(t)
    \/ \E d \in ModalDates : SetDate(d)
    \/ HandleSave
    \/ HandleSaveReturn

SessionSpec == Init /\ [][SessionNext]_vars

\* ------------------------------------------------------------ ensureTables

\* the databases a deployment starts on: a new one, one of the first release
\* (the events table without the added columns), one that is migrated
SchemaStarts == {{}, {"events"}, Relations}

\* a row the first release has written
OldRow == [id |-> 1, title |-> "Trip", date |-> "2023-06-15", location |-> Null,
           latitude |-> Null, longitude |-> Null, updated_at |-> 0]

\* the module is loaded: tablesInitialized is false, whatever the database holds
SchemaInit ==
    /\ relations \in SchemaStarts
    /\ events \in IF "events" \in relations THEN {{}, {OldRow}} ELSE {{}}
    /\ nextEventId = IF events = {} THEN 1 ELSE 2
    /\ photos = {}
    /\ backgrounds = {}
    /\ blobs = {}
    /\ nextRowId = 1
    /\ nextUrl = 1
    /\ started = 0
    /\ putOk = {}
    /\ deleted = {}
    /\ removed = {}
    /\ jobs = [e \in EventIds |-> NoJob]
    /\ inflight = EmptyBag
    /\ batch = NoBatch
    /\ resp = NoResponse
    /\ files = <<>>
    /\ results = <<>>
    /\ meta = NoMeta
    /\ tablesInitialized = FALSE
    /\ calls = [c \in Callers |-> NoCall]
    /\ modal = NoModal

\* mutant: `tablesInitialized = true` right after the first statement
SetsFlagFirst(k) == k = 1

\* `tablesInitialized = true` follows the last statement
SetsFlag(k) == k = Len(Statements)

\* a store operation calls `await ensureTables()`: `if (tablesInitialized)
\* return`, else the call is before its first statement
EnsureTablesCall(c) ==
    /\ calls[c].pc = 0
    /\ started < MaxStarted
    /\ started' = started + 1
    /\ calls' = [calls EXCEPT ![c].pc = IF tablesInitialized THEN 7 ELSE 1]
    /\ UNCHANGED <<tables, blobs, counters, putOk, deleted, removed, jobs, inflight,
                   batch, resp, extraction, tablesInitialized, relations, modal>>

\* one `await sql` of ensureTables: CREATE TABLE IF NOT EXISTS or ADD COLUMN IF
\* NOT EXISTS creates what is missing and keeps what exists, or the statement
\* throws (the connection fails, a concurrent CREATE of the same table wins, the
\* table it alters or references is missing) and ensureTables rejects before
\* its last line
EnsureTablesStatement(c) ==
    /\ calls[c].pc \in 1..Len(Statements)
    /\ LET k == calls[c].pc
       IN \/ /\ Requires(k) \subseteq relations
             /\ relations' = relations \cup {Statements[k]}
             /\ tablesInitialized' = (tablesInitialized \/ SetsFlag(k))
             /\ calls' = [calls EXCEPT ![c].pc = k + 1]
          \/ /\ calls' = [calls EXCEPT ![c] = Call(0, TRUE, @.undefinedTable)]
             /\ UNCHANGED <<relations, tablesInitialized>>
    /\ UNCHANGED <<tables, blobs, counters, started, putOk, deleted, removed, jobs,
                   inflight, batch, resp, extraction, modal>>

\* the query of a store operation whose ensureTables call has returned: the
\* INSERT of createEvent, or a statement on one of the dependent tables; it
\* fails when the database lacks a table or column it names
StoreQuery(c, table) ==
    /\ calls[c].pc = 7
    /\ IF ~(Needs(table) \subseteq relations)
       THEN /\ calls' = [calls EXCEPT ![c] = Call(0, @.threw, TRUE)]
            /\ UNCHANGED <<events, nextEventId>>
       ELSE /\ calls' = [calls EXCEPT ![c].pc = 0]
            /\ IF table = "events" /\ nextEventId <= MaxEdited + 1
               THEN /\ events' = events \cup
                           {[id |-> nextEventId, title |-> "Party", date |-> "2024-01-01",
                             location |-> Null, latitude |-> Null, longitude |-> Null,
                             updated_at |-> 0]}
                    /\ nextEventId' = nextEventId + 1
               ELSE UNCHANGED <<events, nextEventId>>
    /\ UNCHANGED <<photos, backgrounds, blobs, nextRowId, nextUrl, started, putOk, deleted,
                   removed, jobs, inflight, batch, resp, extraction, tablesInitialized,
                   relations, modal>>

\* store operations on a deployment that has just loaded the module
SchemaNext ==
    \/ \E c \in Callers : EnsureTablesCall(c)
    \/ \E c \in Callers : EnsureTablesStatement(c)
    \/ \E c \in Callers, t \in {"events", "photos", "background_images"} : StoreQuery(c, t)

SchemaSpec == SchemaInit /\ [][SchemaNext]_vars

\* ------------------------------------------------------------ specifications

\* the route handlers and the jobs, under any requests.  The detach handler
\* never reads the event id of its path, so its requests are all sent to 0.
Next ==
    \/ \E t \in Titles, d \in Dates, l \in Locations, k \in BOOLEAN :
          PostEvents(t, d, l, Null, Null, k)
    \/ \E e \in EventIds : JobGenerateAndPut(e)
    \/ \E e \in EventIds : JobAddBackground(e)
    \/ \E e \in KnownEventIds, f \in BOOLEAN, o \in SortOrders : PostPhotoPut(e, f, o, 0)
    \/ \E h \in Handlers("addPhoto") : PostPhotoAdd(h)
    \/ \E p \in KnownRowIds, u \in KnownUrls : DeletePhotoBlob(0, p, u)
    \/ \E h \in Handlers("removePhoto") : DeletePhotoRow(h)
    \/ \E e \in KnownEventIds : DeleteEventBlobs(e)
    \/ \E h \in Handlers("deleteEvent") : DeleteEventRow(h)

Spec == Init /\ [][Next]_vars

\* the same, with the jobs' continuations scheduled: a job's await that has
\* settled is resumed
FairSpec ==
    /\ Spec
    /\ \A e \in EventIds : WF_vars(JobGenerateAndPut(e)) /\ WF_vars(JobAddBackground(e))

\* the same, with one upload loop of the event modal as a client
UploadNext ==
    \/ Next
    \/ \E e \in KnownEventIds \ {0}, n \in 1..MaxFiles : BatchStart(e, n)
    \/ BatchSend

UploadSpec == Init /\ [][UploadNext]_vars

\* create, update and delete requests with any title, date, location and
\* coordinates, on a deployment without GEMINI_API_KEY
EditNext ==
    \/ \E t \in EditTitles, d \in EditDates, l \in EditLocations,
          la \in Latitudes, lo \in Longitudes :
          /\ nextEventId <= MaxEdited
          /\ PostEvents(t, d, l, la, lo, FALSE)
    \/ \E e \in KnownEventIds, t \in EditTitles, d \in EditDates, l \in EditLocations,
          la \in Latitudes, lo \in Longitudes :
          PutEvents(e, t, d, l, la, lo)
    \/ \E e \in KnownEventIds : DeleteEventBlobs(e)
    \/ \E h \in Handlers("deleteEvent") : DeleteEventRow(h)

EditSpec == Init /\ [][EditNext]_vars

\* the route handlers and the jobs, with events of several dates, photos of
\* several sort orders, and updates
ListNext ==
    \/ \E d \in ListDates, l \in Locations, k \in BOOLEAN :
          PostEvents("Trip", d, l, Null, Null, k)
    \/ \E e \in KnownEventIds \ {0}, t \in ListTitles, d \in ListDates, l \in Locations :
          PutEvents(e, t, d, l, Null, Null)
    \/ \E e \in EventIds : JobGenerateAndPut(e)
    \/ \E e \in EventIds : JobAddBackground(e)
    \/ \E e \in KnownEventIds \ {0}, o \in ListSortOrders : PostPhotoPut(e, TRUE, o, 0)
    \/ \E h \in Handlers("addPhoto") : PostPhotoAdd(h)
    \/ \E p \in KnownRowIds \ {0}, u \in KnownUrls : DeletePhotoBlob(0, p, u)
    \/ \E h \in Handlers("removePhoto") : DeletePhotoRow(h)
    \/ \E e \in KnownEventIds \ {0} : DeleteEventBlobs(e)
    \/ \E h \in Handlers("deleteEvent") : DeleteEventRow(h)

ListSpec == Init /\ [][ListNext]_vars

\* attach and detach requests on events without location, the detach requests
\* addressed to any event and carrying any photoId and url
DetachNext ==
    \/ PostEvents("Trip", "2024-01-01", Null, Null, Null, FALSE)
    \/ \E e \in KnownEventIds \ {0} : PostPhotoPut(e, TRUE, 0, 0)
    \/ \E h \in Handlers("addPhoto") : PostPhotoAdd(h)
    \/ \E e \in KnownEventIds \ {0}, p \in KnownRowIds, u \in KnownUrls :
          DeletePhotoBlob(e, p, u)
    \/ \E h \in Handlers("removePhoto") : DeletePhotoRow(h)

DetachSpec == Init /\ [][DetachNext]_vars

\* ------------------------------------------------------------------ claims

\* C1: DELETE /events/{id} answers 404 exactly when no event row with that id
\* exists as its row delete runs; for an existing row it answers success,
\* whatever its blob deletes did.
C1_DeleteEventStatus ==
    [][resp'.op = "deleteEvent" =>
          /\ (resp'.status = 404 <=> ~EventExists(resp'.id))
          /\ (EventExists(resp'.id) => resp'.status = 200)]_vars

\* a delete has answered success although some, not all, of its blob deletes threw
C1_Witness ==
    /\ resp.op = "deleteEvent"
    /\ resp.status = 200
    /\ resp.threw = "some"

\* C2: once DELETE /events/{id} has answered success, the event is not listed,
\* getEvent reports not-found for it, and no photo or background row has its id.
C2_DeletedEventIsGone ==
    \A id \in deleted :
        /\ id \notin getAllEventIds
        /\ getEvent(id) = NotFound
        /\ ~\E p \in photos : p.event_id = id
        /\ ~\E b \in backgrounds : b.event_id = id

\* a delete has answered success although every blob delete it made threw
C2_Witness ==
    /\ resp.op = "deleteEvent"
    /\ resp.status = 200
    /\ resp.threw = "all"
    /\ resp.id \in deleted

\* C3: every photo row and every background row references an event row that
\* exists.
C3_RowsReferenceEvents ==
    /\ \A p \in photos : EventExists(p.event_id)
    /\ \A b \in backgrounds : EventExists(b.event_id)

\* an attach whose put had succeeded found its event deleted at its INSERT
C3_Witness ==
    /\ resp.op = "addPhoto"
    /\ resp.put = "ok"
    /\ resp.status = 500
    /\ resp.id \in deleted

\* C4: an attach to an event id that has no row fails with not-found (404) and
\* writes no photo row.
C4_AttachToMissingEvent ==
    [][resp'.op = "addPhoto" /\ resp'.put = "ok" /\ ~EventExists(resp'.id) =>
          /\ resp'.status = 404
          /\ photos' = photos]_vars

\* C5: every photo row's url is one a successful put returned, and an attach
\* whose put failed answers an error and writes no photo row.
C5_RowAfterPut ==
    /\ [](\A p \in photos : p.url \in putOk)
    /\ [][resp'.op = "addPhoto" /\ resp'.put = "failed" =>
              /\ resp'.status = 500
              /\ photos' = photos]_vars

\* an attach whose put failed has answered, beside a row of an earlier attach
C5_Witness ==
    /\ resp.op = "addPhoto"
    /\ resp.put = "failed"
    /\ resp.status = 500
    /\ photos # {}

\* C6: when the upload loop has ended with a failed file, every other file of
\* the batch, the later ones included, has been attached, and the event has its
\* row unless a delete removed it.
C6_OnlyFailedFileLost ==
    batch.pc = "failed" =>
        /\ \A f \in (1..batch.n) \ {batch.failed} : f \in batch.ok
        /\ EventExists(batch.eventId) \/ batch.eventId \in deleted

\* C7: a job exists only for an event created with a truthy location and only
\* for an id already handed out; at the 201 the event row is in the table, the
\* job is started exactly for a truthy location and has made no step; no later
\* step of a job sends or alters a response.
C7_JobStartedAfterCreate ==
    /\ [](\A e \in EventIds :
             jobs[e] # NoJob => ~Falsy(jobs[e].location) /\ e < nextEventId)
    /\ [][resp'.op = "createEvent" /\ resp'.status = 201 =>
              /\ \E r \in events' :
                    /\ r.id = resp'.id
                    /\ jobs'[r.id] # NoJob <=> ~Falsy(r.location)
              /\ jobs'[resp'.id].pc \in {"none", "gen", "skipped"}
              /\ jobs'[resp'.id].i = 0
              /\ resp' = Response("createEvent", 201, resp'.id, "no del", "no put")]_vars
    /\ [][jobs' # jobs /\ resp'.op # "createEvent" => resp' = NoResponse]_vars

\* a create has answered 201 while the job it started awaits the image model
C7_Witness ==
    /\ resp.op = "createEvent"
    /\ resp.status = 201
    /\ jobs[resp.id].pc = "gen"

\* C8: a job never throws out of generateAndSaveBackgrounds; a job that has
\* completed for a deleted event has left no background row for it; and a
\* running job whose event is deleted runs to completion.
C8_JobSurvivesDelete ==
    /\ [](\A e \in EventIds :
             /\ jobs[e].pc # "threw"
             /\ (e \in deleted /\ jobs[e].pc = "done") =>
                    ~\E b \in backgrounds : b.event_id = e)
    /\ \A e \in EventIds :
          (e \in deleted /\ jobs[e].pc \in {"gen", "add"}) ~> (jobs[e].pc = "done")

\* a job has completed after its INSERT was rejected for the deleted event
C8_Witness ==
    \E e \in deleted : jobs[e].pc = "done" /\ jobs[e].caught

\* C9: a detach of a photo whose row exists as removePhoto runs answers success
\* and the row is gone, whatever the blob delete did.
C9_DetachExisting ==
    [][resp'.op = "removePhoto" /\ (\E p \in photos : p.id = resp'.id) =>
          /\ resp'.status = 200
          /\ ~\E p \in photos' : p.id = resp'.id]_vars

\* a detach has answered success although its blob delete threw
C9_Witness ==
    /\ resp.op = "removePhoto"
    /\ resp.status = 200
    /\ resp.threw = "all"
    /\ resp.id \in removed

\* C10: removePhoto for an id that has no row returns false (the route answers
\* 404) and leaves the tables as they were; for an id an earlier call removed,
\* it returns false.
C10_RemoveUnknown ==
    /\ [][resp'.op = "removePhoto" /\ ~(\E p \in photos : p.id = resp'.id) =>
              /\ resp'.status = 404
              /\ tables' = tables
              /\ removed' = removed]_vars
    /\ [][resp'.op = "removePhoto" /\ resp'.id \in removed => resp'.status = 404]_vars

\* a second removePhoto of an id an earlier call removed has returned false
C10_Witness ==
    /\ resp.op = "removePhoto"
    /\ resp.status = 404
    /\ resp.id \in removed

\* C11: after an update that leaves an event's location null, getEvent shows
\* its latitude and longitude null as well.
C11_ClearedLocationClearsCoordinates ==
    [][\A id \in EventIds :
          (/\ resp'.op = "updateEvent"
           /\ resp'.status = 200
           /\ resp'.id = id
           /\ getEvent(id)'.location = Null) =>
              /\ getEvent(id)'.latitude = Null
              /\ getEvent(id)'.longitude = Null]_vars

\* C12: each event's latitude and longitude are both set or both null.
C12_CoordinatesPaired ==
    \A e \in events : (e.latitude = Null) <=> (e.longitude = Null)

\* C13: a create or update whose title or date is missing, or whose date is not
\* a YYYY-MM-DD date, answers the validation error (400) and changes no table.
C13_InvalidRequestRejected ==
    [][resp'.op \in {"createEvent", "updateEvent"} =>
          \A t \in EditTitles, d \in EditDates, l \in EditLocations,
             la \in Latitudes, lo \in Longitudes :
              (Falsy(t) \/ Falsy(d) \/ DateColumn(d) # d) =>
                  /\ PostEvents(t, d, l, la, lo, FALSE) =>
                        resp'.status = 400 /\ tables' = tables
                  /\ \A e \in KnownEventIds :
                        PutEvents(e, t, d, l, la, lo) =>
                            resp'.status = 400 /\ tables' = tables]_vars

C15_CreateThenGet ==
    [][resp'.op = "createEvent" /\ resp'.status = 201 =>
          \A t \in EditTitles, d \in EditDates, l \in EditLocations,
             la \in Latitudes, lo \in Longitudes, id \in EventIds :
              (/\ DateColumn(d) = d
               /\ resp'.id = id
               /\ PostEvents(t, d, l, la, lo, FALSE)) =>
                  /\ getEvent(id)'.title = t
                  /\ getEvent(id)'.date = d
                  /\ getEvent(id)'.photos = <<>>
                  /\ getEvent(id)'.backgrounds = <<>>]_vars

\* a create with a second title has answered 201 and its row is in the table
C15_Witness ==
    /\ resp.op = "createEvent"
    /\ resp.status = 201
    /\ getEvent(resp.id).title = "Party"
    /\ getEvent(resp.id).date = "2024-01-01"

\* C16: getAllEvents returns every event row once, by ascending date; every
\* event it or getEvent returns nests exactly the photo rows and background
\* rows of its id, the photos by sort_order then created_at, the backgrounds
\* by created_at.
C16_Listing ==
    LET L == getAllEvents
        PhotosOf(id) == {p \in photos : p.event_id = id}
        BackgroundsOf(id) == {b \in backgrounds : b.event_id = id}
        Nests(ev) ==
            /\ {ev.photos[i] : i \in 1..Len(ev.photos)} = PhotosOf(ev.id)
            /\ Len(ev.photos) = Cardinality(PhotosOf(ev.id))
            /\ {ev.backgrounds[i] : i \in 1..Len(ev.backgrounds)} = BackgroundsOf(ev.id)
            /\ Len(ev.backgrounds) = Cardinality(BackgroundsOf(ev.id))
            /\ \A i, j \in 1..Len(ev.photos) :
                  i < j =>
                      \/ ev.photos[i].sort_order < ev.photos[j].sort_order
                      \/ /\ ev.photos[i].sort_order = ev.photos[j].sort_order
                         /\ ev.photos[i].created_at <= ev.photos[j].created_at
            /\ \A i, j \in 1..Len(ev.backgrounds) :
                  i < j => ev.backgrounds[i].created_at <= ev.backgrounds[j].created_at
    IN /\ Len(L) = Cardinality(events)
       /\ {L[k].id : k \in 1..Len(L)} = {e.id : e \in events}
       /\ \A j, k \in 1..Len(L) : j < k => DateDays(L[j].date) <= DateDays(L[k].date)
       /\ \A k \in 1..Len(L) : Nests(L[k])
       /\ \A e \in events : getEvent(e.id).id = e.id /\ Nests(getEvent(e.id))

\* two events are listed against the order of their creation, and one nests
\* two photos against the order of their creation
C16_Witness ==
    /\ Len(getAllEvents) = 2
    /\ getAllEvents[1].id > getAllEvents[2].id
    /\ \E k \in 1..2 :
          /\ Len(getAllEvents[k].photos) = 2
          /\ getAllEvents[k].photos[1].created_at > getAllEvents[k].photos[2].created_at

\* C17: an update leaves every photo row, every background row, every blob and
\* every job as it was, starts no job, and changes no other event's row.
C17_UpdateFrame ==
    [][resp'.op = "updateEvent" =>
          /\ photos' = photos
          /\ backgrounds' = backgrounds
          /\ blobs' = blobs
          /\ jobs' = jobs
          /\ {e.id : e \in events'} = {e.id : e \in events}
          /\ \A e \in events : e.id # resp'.id => e \in events']_vars

\* an update has answered for an event that has a photo and a background
C17_Witness ==
    /\ resp.op = "updateEvent"
    /\ resp.status = 200
    /\ \E p \in photos : p.event_id = resp.id
    /\ \E b \in backgrounds : b.event_id = resp.id

C19_BatchLocation ==
    meta.done =>
        LET I == {i \in 1..Len(files) : getPhotoMetadata(files[i]).location # Null}
        IN /\ I = {} =>
                 meta.location = Null /\ meta.latitude = Null /\ meta.longitude = Null
           /\ \A k \in I : (\A j \in I : k <= j) =>
                 /\ meta.location = getPhotoMetadata(files[k]).location
                 /\ meta.latitude = files[k].latitude
                 /\ meta.longitude = files[k].longitude
                 /\ meta.latitude # Null
                 /\ meta.longitude # Null
           /\ (/\ Len(files) = 3
               /\ \A i \in 1..3 : (results[i].date # Null) <=> (i = 2)
               /\ \A i \in 1..3 : (files[i].gps = "coords") <=> (i = 3)) =>
                 /\ meta.date = results[2].date
                 /\ meta.location = results[3].location
                 /\ meta.latitude = files[3].latitude
                 /\ meta.longitude = files[3].longitude

\* three files, only the second yields a date, only the third has GPS data
C19_Witness ==
    /\ meta.done
    /\ Len(files) = 3
    /\ \A i \in 1..3 : (results[i].date # Null) <=> (i = 2)
    /\ \A i \in 1..3 : (files[i].gps = "coords") <=> (i = 3)
    /\ meta.location = "Paris, Ile-de-France, France"

\* C20: for a file without EXIF data (neither exifr.parse nor exifr.gps returns
\* anything), getPhotoMetadata returns the date of file.lastModified and null
\* for location, latitude and longitude.
C20_NoExifFallsBack ==
    \A i \in 1..Len(files) :
        (/\ results[i] # Pending
         /\ files[i].parse \in {"undefined", "throws"}
         /\ files[i].gps \in {"undefined", "throws"}) =>
            results[i] = PhotoMetadata(formatDate(files[i].lastModified), Null, Null, Null)

\* C21: a file that yields coordinates gets a location that is a string, never
\* null: the parts of the geocoder's place joined by ", " when the geocoder
\* answers at least one usable part, and otherwise (its fetch throws, its status
\* is not OK, it answers no usable part) the two coordinates to 4 decimal
\* places, "48.8566, 2.3522" for (48.8566, 2.3522).
C21_LocationOfCoordinates ==
    \A i \in 1..Len(files) :
        (results[i] # Pending /\ files[i].gps = "coords") =>
            LET d == files[i].geocode
                first == IF d.locality # "" THEN d.locality ELSE d.city
                country == IF d.countryCode # "US" THEN d.countryName ELSE ""
                present(part) == part # ""
                usable == SelectSeq(<<first, d.principalSubdivision, country>>, present)
                coordinates == toFixed4(files[i].latitude) \o ", "
                                   \o toFixed4(files[i].longitude)
            IN /\ results[i].latitude = files[i].latitude
               /\ results[i].longitude = files[i].longitude
               /\ results[i].location # Null
               /\ results[i].location # ""
               /\ (d.answer = "ok" /\ usable # <<>>) => results[i].location = join(usable)
               /\ (d.answer # "ok" \/ usable = <<>>) => results[i].location = coordinates
               /\ (/\ d.answer # "ok"
                   /\ files[i].latitude = "48.8566"
                   /\ files[i].longitude = "2.3522") =>
                      results[i].location = "48.8566, 2.3522"

\* one batch holds a position whose geocoding threw, one the geocoder knew only
\* the domestic country of, and one it knew the city and the region of
C21_Witness ==
    /\ Len(files) = 3
    /\ \E i \in 1..3 : files[i].geocode.answer = "throws"
                       /\ results[i].location = "48.8566, 2.3522"
    /\ \E i \in 1..3 : files[i].geocode.answer = "ok"
                       /\ results[i].location = "40.7128, -74.0060"
    /\ \E i \in 1..3 : results[i].location = "New York City, New York"

\* C22: a throw of exifr.parse, of exifr.gps or of the geocoder's fetch leaves
\* the file with what it has when that step finds nothing; no call and no batch
\* rejects; a call that resolves changes no other file's result; and the batch
\* combines what its files have without the failed steps.
C22_FailureIsolated ==
    /\ [](LET Degraded(f) ==
                  [f EXCEPT !.parse = IF @ = "throws" THEN "undefined" ELSE @,
                            !.gps = IF @ = "throws" THEN "undefined" ELSE @,
                            !.geocode = IF @ = GeocodeThrows THEN GeocodeNotOk ELSE @]
              expected == [i \in 1..Len(files) |-> getPhotoMetadata(Degraded(files[i]))]
          IN /\ \A i \in 1..Len(files) :
                    results[i] # Pending =>
                        results[i] # Rejected /\ results[i] = expected[i]
             /\ meta.done => meta # MetaRejected /\ meta = getFilesMetadata(expected))
    /\ [][\A i \in 1..Len(files) :
              results[i] # Pending => results'[i] = results[i]]_vars

\* a batch has returned a later file's date and place although exifr.parse
\* threw for its first file and exifr.gps for its second
C22_Witness ==
    /\ meta.done
    /\ Len(files) = 3
    /\ files[1].parse = "throws"
    /\ files[1].gps = "throws"
    /\ files[2].gps = "throws"
    /\ files[3].geocode = GeocodeThrows
    /\ meta.date = "2024-01-01"
    /\ meta.location = "48.8566, 2.3522"

\* C26: a file's date is the date of the first of DateTimeOriginal, CreateDate,
\* ModifyDate and GPSDateStamp that parses, also when a tag before it is present
\* and does not parse; the date of file.lastModified is used only when none of
\* the four parses.
C26_DateTagPriority ==
    \A i \in 1..Len(files) :
        (results[i] # Pending /\ files[i].parse = "tags") =>
            LET parsed(tag) == IF tag.type = "Date" THEN formatDate(tag.time)
                               ELSE IF tag.type = "string" THEN parseExifDateString(tag.text)
                               ELSE Null
                tags == <<files[i].DateTimeOriginal, files[i].CreateDate,
                          files[i].ModifyDate, files[i].GPSDateStamp>>
                P == {k \in 1..4 : parsed(tags[k]) # Null}
            IN /\ \A k \in P : (\A j \in P : k <= j) => results[i].date = parsed(tags[k])
               /\ (P = {} /\ files[i].lastModified # 0) =>
                      results[i].date = formatDate(files[i].lastModified)

\* C25: tablesInitialized is true only when the three tables and the three
\* added columns exist; no query of a store operation finds its table or
\* column missing; and no step of ensureTables, of whatever interleaved or
\* failed call, removes a row or a table.
C25_EnsureTables ==
    /\ [](tablesInitialized => relations = Relations)
    /\ [](\A c \in Callers : ~calls[c].undefinedTable)
    /\ [][(\E c \in Callers : calls[c].pc \in 1..Len(Statements) /\ calls'[c] # calls[c]) =>
              /\ tables' = tables
              /\ relations \subseteq relations']_vars

\* on a database of the first release, one call has thrown part-way, the schema
\* is initialized, and the old row stands beside a new one
C25_Witness ==
    /\ tablesInitialized
    /\ \E c \in Callers : calls[c].threw
    /\ OldRow \in events
    /\ Cardinality(events) = 2

\* C23: a proposal of a batch the user started after setting the date by hand
\* leaves the date, and one started after setting the location by hand leaves
\* the location and the latitude and longitude stored with it.
C23_ManualFieldsKept ==
    [][(modal.extract.pc = "await" /\ modal'.extract.pc = "none") =>
          /\ modal.extract.dateManuallySet => modal'.date = modal.date
          /\ modal.extract.locationManuallySet =>
                 /\ modal'.location = modal.location
                 /\ modal'.latitude = modal.latitude
                 /\ modal'.longitude = modal.longitude]_vars

\* C30: the saves of one session of the modal opened by openCreateModal create
\* at most one event.
C30_OneEventPerSession ==
    modal.event.id = 0 => modal.created <= 1

\* C24: when DELETE /events/{id} answers success, every photo row and every
\* background row its cascade removed has a url that a DELETE of that event has
\* called del with.
C24_CascadedBlobsAttempted ==
    [][(resp'.op = "deleteEvent" /\ resp'.status = 200) =>
          LET attempted == UNION {h.urls : h \in {g \in Handlers("deleteEvent") :
                                                    g.id = resp'.id}}
          IN /\ \A p \in photos \ photos' : p.url \in attempted
             /\ \A b \in backgrounds \ backgrounds' : b.url \in attempted]_vars

\* C28: after any attach and detach requests, once no detach request is under
\* way, every photo row in the store has a url whose blob no detach request
\* has deleted (a detach that finds no row and answers "Photo not found"
\* included)
C28_RowsKeepBlobs ==
    Handlers("removePhoto") = {} => \A p \in photos : p.url \in blobs

\* C29: a detach request addressed to event A leaves the blobs (at its del)
\* and the photo rows (at its removePhoto) of every other event as they were
C29_DetachFrame ==
    [][\A h \in BagToSet(inflight) \cup BagToSet(inflight') :
          h.op = "removePhoto" =>
             /\ CopiesIn(h, inflight') > CopiesIn(h, inflight) =>
                   \A p \in photos : (p.event_id # h.id /\ p.url \in blobs) => p.url \in blobs'
             /\ CopiesIn(h, inflight') < CopiesIn(h, inflight) =>
                   \A p \in photos : p.event_id # h.id => p \in photos']_vars

\* C27: the upload loop has at most one request under way, the one for its
\* current file, and sends the request for a file only after the requests for
\* all earlier files have completed; and getEvent returns the photos of the
\* batch in the order of the files
C27_BatchOrder ==
    /\ \A h \in Handlers("addPhoto") :
          h.file # 0 => /\ batch.pc = "wait"
                        /\ h.file = batch.i
                        /\ CopiesIn(h, inflight) = 1
    /\ batch.pc \in {"send", "wait"} => batch.ok = 1..(batch.i - 1)
    /\ EventExists(batch.eventId) =>
          LET ps == getEvent(batch.eventId).photos
          IN \A j, k \in 1..Len(ps) :
                (ps[j].file # 0 /\ ps[k].file # 0 /\ ps[j].file < ps[k].file) => j < k

\* a batch of two files is done and getEvent returns the rows of both
C27_Witness ==
    /\ batch.pc = "done"
    /\ batch.n = 2
    /\ EventExists(batch.eventId)
    /\ LET ps == getEvent(batch.eventId).photos
       IN \E j, k \in 1..Len(ps) : ps[j].file = 1 /\ ps[k].file = 2

====
